---- MODULE Spec2Model ----
(***************************************************************************)
(* Cross-media recommender (ML/models/recommender.py, tag_encoder.py).     *)
(*                                                                         *)
(* Strings are sequences of one-character strings.  Python values that can *)
(* be None, a string or a dict are tagged records (PyNone, PyStr, PyDict). *)
(* A dict key that is absent is a record field that is absent.  Catalog    *)
(* positions are 1-based here (Python index i is position i + 1).          *)
(* Vectors are integer vectors of squared norm Scale, so that a cosine     *)
(* distance d is held as the integer Scale * d and a similarity 1 - d as   *)
(* Scale - Scale * d.                                                      *)
(***************************************************************************)
EXTENDS Integers, Sequences, FiniteSets, TLC

VARIABLES items, embeddings, knn, disk, encoder, tiebreak, ret,
          encIn, encOut, tmdb, mc, al

vars == <<items, embeddings, knn, disk, encoder, tiebreak, ret, encIn, encOut,
          tmdb, mc, al>>

recVars == <<items, embeddings, knn, disk, encoder, tiebreak, ret>>
encVars == <<encIn, encOut>>
colVars == <<tmdb, mc, al>>

----------------------------------------------------------------------------
(* Bounds *)

MaxItems == 3
MaxPerType == 2
WalkLen == 5
MaxTime == 42
IdleWait == 18
MaxIds == 2
PageLen == 2
MaxPages == 2
FetchMax == 3
PerPage == 2
LastPage == 4

----------------------------------------------------------------------------
(* Python values *)

PyNone == [t |-> "none"]
PyStr(s) == [t |-> "str", s |-> s]
PyDict(e, r) == [t |-> "dict", english |-> e, romaji |-> r]

Truthy(v) == v.t = "str" /\ v.s # <<>>

Min(S) == CHOOSE x \in S : \A y \in S : x <= y

MinOf(a, b) == IF a <= b THEN a ELSE b

Range(s) == {s[i] : i \in 1..Len(s)}

----------------------------------------------------------------------------
(* str.lower, str.strip, the "in" operator on strings *)

UpperChars == <<"A","B","C","D","E","F","G","H","I","J","K","L","M",
                "N","O","P","Q","R","S","T","U","V","W","X","Y","Z">>
LowerChars == <<"a","b","c","d","e","f","g","h","i","j","k","l","m",
                "n","o","p","q","r","s","t","u","v","w","x","y","z">>

LowerOf ==
    [c \in {UpperChars[k] : k \in 1..Len(UpperChars)} |->
        LowerChars[CHOOSE k \in 1..Len(UpperChars) : UpperChars[k] = c]]

LowerChar(c) == IF c \in DOMAIN LowerOf THEN LowerOf[c] ELSE c

Lower(s) == [k \in 1..Len(s) |-> LowerChar(s[k])]

IsSpace(c) == c \in {" ", "\t", "\n"}

Strip(s) ==
    LET keep == {k \in 1..Len(s) : ~IsSpace(s[k])}
    IN IF keep = {} THEN <<>>
       ELSE SubSeq(s, Min(keep), CHOOSE k \in keep : \A j \in keep : j <= k)

Contains_nonempty(needle, hay) ==
    /\ needle # <<>>
    /\ \E k \in 0..(Len(hay) - Len(needle)) :
          SubSeq(hay, k + 1, k + Len(needle)) = needle

Contains(needle, hay) ==
    \E k \in 0..(Len(hay) - Len(needle)) :
        SubSeq(hay, k + 1, k + Len(needle)) = needle

----------------------------------------------------------------------------
(* MediaRecommender._get_title *)

Unknown == <<"U","n","k","n","o","w","n">>

PyStrOf(v) == IF v.t = "str" THEN v.s ELSE <<"N","o","n","e">>

_get_title(item) ==
    LET title == IF "title" \in DOMAIN item THEN item.title ELSE PyStr(Unknown)
    IN IF title.t = "dict"
       THEN IF Truthy(title.english) THEN title.english.s
            ELSE IF Truthy(title.romaji) THEN title.romaji.s
            ELSE Unknown
       ELSE PyStrOf(title)

----------------------------------------------------------------------------
(* MediaRecommender.find_item; NotFound is Python's None *)

NotFound == 0

ExactMatches(its, title_lower) ==
    {i \in 1..Len(its) : Lower(_get_title(its[i])) = title_lower}

SubstringMatches(its, title_lower) ==
    {i \in 1..Len(its) : Contains(title_lower, Lower(_get_title(its[i])))}

find_item_substring_first(its, title) ==
    LET title_lower == Strip(Lower(title))
        substring == SubstringMatches(its, title_lower)
    IN IF substring # {} THEN Min(substring) ELSE NotFound

find_item_first_by_default(its, title) ==
    LET title_lower == Strip(Lower(title))
        exact == ExactMatches(its, title_lower)
        substring == SubstringMatches(its, title_lower)
    IN IF exact # {} THEN Min(exact)
       ELSE IF substring # {} THEN Min(substring)
       ELSE 1

find_item(its, title) ==
    LET title_lower == Strip(Lower(title))
        exact == ExactMatches(its, title_lower)
        substring == SubstringMatches(its, title_lower)
    IN IF exact # {} THEN Min(exact)
       ELSE IF substring # {} THEN Min(substring)
       ELSE NotFound

----------------------------------------------------------------------------
(* TagEncoder.encode                                                       *)
(* A part is a Python value: PyStr for a string, PyNone for a None that    *)
(* was appended.  The call raises when it iterates None, reads a missing   *)
(* tag name, compares a None rank, or joins a part that is not a string.   *)

PyInt(n) == [t |-> "int", n |-> n]
PyList(l) == [t |-> "list", l |-> l]

DescLimit == 200
HighRank == 80
MidRank == 60
DefaultRank == 50

Sep == <<" ", ".", " ">>

GetList(item, key) == IF key \in DOMAIN item THEN item[key] ELSE PyList(<<>>)

GenreParts_once(genres) ==
    [k \in 1..Len(genres) |-> PyStr(genres[k])]

GenreParts(genres) ==
    [k \in 1..(2 * Len(genres)) |-> PyStr(genres[(k + 1) \div 2])]

TagRank(tag) == IF "rank" \in DOMAIN tag THEN tag.rank ELSE PyInt(DefaultRank)
TagDesc(tag) == IF "description" \in DOMAIN tag THEN tag.description ELSE PyStr(<<>>)

TagParts_above_rank(tag) ==
    IF TagRank(tag).n > HighRank
    THEN <<tag.name, tag.name, tag.name, TagDesc(tag)>>
    ELSE IF TagRank(tag).n > MidRank
    THEN <<tag.name, tag.name>>
    ELSE <<tag.name>>

TagParts(tag) ==
    IF TagRank(tag).n >= HighRank
    THEN <<tag.name, tag.name, tag.name, TagDesc(tag)>>
    ELSE IF TagRank(tag).n >= MidRank
    THEN <<tag.name, tag.name>>
    ELSE <<tag.name>>

RECURSIVE AllTagParts_last_first(_)
AllTagParts_last_first(tags) ==
    IF tags = <<>> THEN <<>>
    ELSE AllTagParts_last_first(Tail(tags)) \o TagParts(Head(tags))

RECURSIVE AllTagParts(_)
AllTagParts(tags) ==
    IF tags = <<>> THEN <<>>
    ELSE TagParts(Head(tags)) \o AllTagParts(Tail(tags))

KeywordParts(keywords) ==
    [k \in 1..(2 * Len(keywords)) |-> PyStr(keywords[(k + 1) \div 2])]

(* re.sub(r'<[^>]+>', '', desc): a match starts at a "<" whose next ">"   *)
(* lies at least two characters on and runs to that ">"; a "<" inside a   *)
(* match has the same next ">", so the removed positions are the union of *)
(* these runs.                                                            *)
InTag(i, opens, closes) ==
    \E a \in opens : \E b \in closes :
        /\ a <= i /\ i <= b /\ b > a + 1
        /\ \A c \in closes : c > a => c >= b

RECURSIVE KeepOutsideTags(_, _, _, _, _)
KeepOutsideTags(s, lo, hi, opens, closes) ==
    IF lo > hi THEN <<>>
    ELSE IF lo = hi
    THEN IF InTag(lo, opens, closes) THEN <<>> ELSE <<s[lo]>>
    ELSE KeepOutsideTags(s, lo, (lo + hi) \div 2, opens, closes)
            \o KeepOutsideTags(s, (lo + hi) \div 2 + 1, hi, opens, closes)

StripHTML(s) ==
    KeepOutsideTags(s, 1, Len(s), {a \in 1..Len(s) : s[a] = "<"},
                    {b \in 1..Len(s) : s[b] = ">"})

Truncate(s, n) == SubSeq(s, 1, MinOf(Len(s), n))

DescParts_truncate_first(item) ==
    IF "description" \in DOMAIN item /\ Truthy(item.description)
    THEN <<PyStr(StripHTML(Truncate(item.description.s, DescLimit)))>>
    ELSE <<>>

DescParts(item) ==
    IF "description" \in DOMAIN item /\ Truthy(item.description)
    THEN <<PyStr(Truncate(StripHTML(item.description.s), DescLimit))>>
    ELSE <<>>

RECURSIVE Join(_)
Join(parts) ==
    IF parts = <<>> THEN <<>>
    ELSE IF Len(parts) = 1 THEN parts[1].s
    ELSE parts[1].s \o Sep \o Join(Tail(parts))

TagRaises(tag) ==
    \/ "name" \notin DOMAIN tag
    \/ TagRank(tag).t # "int"

EncodeRaisesEarly(item) ==
    \/ GetList(item, "genres").t # "list"
    \/ GetList(item, "tags").t # "list"
    \/ \E k \in 1..Len(GetList(item, "tags").l) : TagRaises(GetList(item, "tags").l[k])
    \/ GetList(item, "keywords").t # "list"

EncodeParts(item) ==
    GenreParts(GetList(item, "genres").l)
        \o AllTagParts(GetList(item, "tags").l)
        \o KeywordParts(GetList(item, "keywords").l)
        \o DescParts(item)

Raised == [raised |-> TRUE]

Encode(item) ==
    IF EncodeRaisesEarly(item) THEN Raised
    ELSE LET parts == EncodeParts(item)
         IN IF \E k \in 1..Len(parts) : parts[k].t # "str"
            THEN Raised
            ELSE [raised |-> FALSE, parts |-> parts, text |-> Join(parts)]


----------------------------------------------------------------------------
(* Catalog records as the JSON files hold them *)

Str1(a) == <<a>>
Str2(a, b) == <<a, b>>

RawN == [title |-> PyStr(Str1("N")), genres |-> PyList(<<Str1("a")>>)]
RawNs == [title |-> PyDict(PyStr(Str2("N", "s")), PyNone),
          genres |-> PyList(<<Str1("a"), Str1("b")>>)]
RawM == [title |-> PyDict(PyNone, PyStr(Str1("N"))),
         tags |-> PyList(<<[name |-> PyStr(Str1("a")), rank |-> PyInt(70)]>>)]
RawUntitled == [keywords |-> PyList(<<Str1("a")>>),
                description |-> PyStr(<<"<", "i", ">", "b", " ", ".", " ", "b">>)]

AnimePool == {RawN, RawNs}
MangaPool == {RawM}
MoviePool == {RawUntitled}

SetMediaType(raw, mtype) ==
    [key \in (DOMAIN raw) \cup {"media_type"} |->
        IF key = "media_type" THEN mtype ELSE raw[key]]

TagAll(raws, mtype) == [k \in 1..Len(raws) |-> SetMediaType(raws[k], mtype)]

SeqsUpTo(S, n) == UNION {[1..m -> S] : m \in 0..n}

Titles == {<<>>, Str1("n"), Str2("N", "s"), Str2(" ", "K"), Str1("z")}

(* What input().strip() can pass on, and a blank the API can be given. *)
QueryTitles == Titles \cup {Str1(" ")}

TextPool == {Encode(raw).text : raw \in AnimePool \cup MangaPool \cup MoviePool}

----------------------------------------------------------------------------
(* Embeddings: unit vectors scaled to squared norm Scale *)

Scale == 25
Vecs == {<<5, 0>>, <<3, 4>>}

Dot(a, b) == a[1] * b[1] + a[2] * b[2]

CosineDistance_dot(a, b) == Dot(a, b)

CosineDistance(a, b) == Scale - Dot(a, b)

NoEmb == [has |-> FALSE, X |-> <<>>]
NoKnn == [state |-> "none", n_neighbors |-> 0, X |-> <<>>]
NoFile == [exists |-> FALSE, has |-> FALSE, X |-> <<>>]

DefaultNeighbors == 50
QueryNeighbors == 200

(* NearestNeighbors(n_neighbors=..., metric="cosine").fit(X) *)
Fit(n, X) ==
    IF n <= 0 \/ Len(X) = 0
    THEN [state |-> "unfitted", n_neighbors |-> n, X |-> <<>>]
    ELSE [state |-> "fitted", n_neighbors |-> n, X |-> X]

(* Brute-force scan: every indexed vector's distance to x, then the      *)
(* positions in ascending distance.  The library orders equal distances   *)
(* as its selection and sort leave them; tb is that order.                *)
Distances_similarity(X, x) == [i \in 1..Len(X) |-> Dot(x, X[i])]

Distances(X, x) == [i \in 1..Len(X) |-> CosineDistance(x, X[i])]

Before(d, tb, i, j) == d[i] < d[j] \/ (d[i] = d[j] /\ tb[i] < tb[j])

RECURSIVE InsertSorted(_, _, _, _)
InsertSorted(d, tb, sorted, i) ==
    IF sorted = <<>> THEN <<i>>
    ELSE IF Before(d, tb, i, Head(sorted)) THEN <<i>> \o sorted
    ELSE <<Head(sorted)>> \o InsertSorted(d, tb, Tail(sorted), i)

RECURSIVE SortedUpTo(_, _, _)
SortedUpTo(d, tb, m) ==
    IF m = 0 THEN <<>>
    ELSE InsertSorted(d, tb, SortedUpTo(d, tb, m - 1), m)

KNeighborsRaises(nn, k) ==
    nn.state # "fitted" \/ k <= 0 \/ k > Len(nn.X)

kneighbors(nn, x, k, tb) ==
    LET d == Distances(nn.X, x)
        order == SortedUpTo(d, tb, Len(nn.X))
    IN [r \in 1..k |-> [i |-> order[r], dist |-> d[order[r]]]]

----------------------------------------------------------------------------
(* MediaRecommender.recommend: the walk over the neighbours *)

EmptyBuckets == [anime |-> <<>>, manga |-> <<>>, movie |-> <<>>]

WalkRaised == [raised |-> TRUE]

MediaTypeOf(item) ==
    IF "media_type" \in DOMAIN item THEN item.media_type ELSE "unknown"

AppendTo_one_more(results, mtype, i, dist, n) ==
    IF mtype \in DOMAIN results /\ Len(results[mtype]) <= n
    THEN [results EXCEPT ![mtype] = Append(@, [i |-> i, sim |-> Scale - dist])]
    ELSE results

AppendTo(results, mtype, i, dist, n) ==
    IF mtype \in DOMAIN results /\ Len(results[mtype]) < n
    THEN [results EXCEPT ![mtype] = Append(@, [i |-> i, sim |-> Scale - dist])]
    ELSE results

AllFull_any(results, n) == \E mtype \in DOMAIN results : Len(results[mtype]) >= n

AllFull(results, n) == \A mtype \in DOMAIN results : Len(results[mtype]) >= n

RECURSIVE Walk_keep_source(_, _, _, _, _, _)
Walk_keep_source(its, nbrs, p, idx, n, results) ==
    IF p > Len(nbrs) THEN [raised |-> FALSE, results |-> results]
    ELSE IF nbrs[p].i > Len(its) THEN WalkRaised
    ELSE LET r2 == AppendTo(results, MediaTypeOf(its[nbrs[p].i]),
                            nbrs[p].i, nbrs[p].dist, n)
         IN IF AllFull(r2, n) THEN [raised |-> FALSE, results |-> r2]
            ELSE Walk_keep_source(its, nbrs, p + 1, idx, n, r2)

RECURSIVE Walk(_, _, _, _, _, _)
Walk(its, nbrs, p, idx, n, results) ==
    IF p > Len(nbrs) THEN [raised |-> FALSE, results |-> results]
    ELSE IF nbrs[p].i = idx THEN Walk(its, nbrs, p + 1, idx, n, results)
    ELSE IF nbrs[p].i > Len(its) THEN WalkRaised
    ELSE LET r2 == AppendTo(results, MediaTypeOf(its[nbrs[p].i]),
                            nbrs[p].i, nbrs[p].dist, n)
         IN IF AllFull(r2, n) THEN [raised |-> FALSE, results |-> r2]
            ELSE Walk(its, nbrs, p + 1, idx, n, r2)


----------------------------------------------------------------------------
(* The recommender as a state machine: one action per public method *)

Perms(S) == {f \in [S -> S] : \A a, b \in S : f[a] = f[b] => a = b}

TieOrders == [m \in 0..MaxItems |-> Perms(1..m)]

ByPosition == [i \in 1..MaxItems |-> i]

Ret(op, kind) ==
    [op |-> op, kind |-> kind, title |-> <<>>, n |-> 0, idx |-> NotFound,
     source |-> NotFound, nbrs |-> <<>>, results |-> EmptyBuckets]

EncIdle == [called |-> FALSE, raised |-> FALSE, parts |-> <<>>, text |-> <<>>]

(* The recommender process constructs no TMDbClient, no MovieCollector and *)
(* runs no AniList download.                                               *)
NoClient == [exists |-> FALSE]
NoCollector == [exists |-> FALSE]
NoFetch == [exists |-> FALSE]

NoCollection == tmdb = NoClient /\ mc = NoCollector /\ al = NoFetch

(* MediaRecommender.__init__ : the sentence encoder is loaded once and is *)
(* a fixed function from text to unit vector.                              *)
Init ==
    /\ items = <<>>
    /\ embeddings = NoEmb
    /\ knn = NoKnn
    /\ disk = NoFile
    /\ encoder \in [TextPool -> Vecs]
    /\ tiebreak = ByPosition
    /\ ret = Ret("__init__", "ok")
    /\ encIn = <<>>
    /\ encOut = EncIdle
    /\ NoCollection

load_data_from_prepend(animeFiles, mangaFiles, moviesFiles) ==
    /\ \E anime \in animeFiles : \E manga \in mangaFiles : \E movies \in moviesFiles :
          /\ Len(items) + Len(anime) + Len(manga) + Len(movies) <= MaxItems
          /\ items' = TagAll(anime, "anime") \o TagAll(manga, "manga")
                            \o TagAll(movies, "movie") \o items
    /\ ret' = Ret("load_data", "ok")
    /\ UNCHANGED <<embeddings, knn, disk, encoder, tiebreak, encVars, colVars>>

load_data_from(animeFiles, mangaFiles, moviesFiles) ==
    /\ \E anime \in animeFiles : \E manga \in mangaFiles : \E movies \in moviesFiles :
          /\ Len(items) + Len(anime) + Len(manga) + Len(movies) <= MaxItems
          /\ items' = items \o TagAll(anime, "anime") \o TagAll(manga, "manga")
                            \o TagAll(movies, "movie")
    /\ ret' = Ret("load_data", "ok")
    /\ UNCHANGED <<embeddings, knn, disk, encoder, tiebreak, encVars, colVars>>

build_index ==
    /\ IF \E k \in 1..Len(items) : Encode(items[k]).raised
       THEN /\ ret' = Ret("build_index", "raise")
            /\ UNCHANGED <<embeddings, knn>>
       ELSE \E failed \in BOOLEAN :
            IF failed
            THEN /\ ret' = Ret("build_index", "raise")
                 /\ UNCHANGED <<embeddings, knn>>
            ELSE LET X == [k \in 1..Len(items) |-> encoder[Encode(items[k]).text]]
                 IN /\ embeddings' = [has |-> TRUE, X |-> X]
                    /\ knn' = Fit(MinOf(DefaultNeighbors, Len(items)), X)
                    /\ ret' = Ret("build_index",
                                  IF Len(X) = 0 THEN "raise" ELSE "ok")
    /\ UNCHANGED <<items, disk, encoder, tiebreak, encVars, colVars>>

save_index_reversed ==
    /\ disk' = [exists |-> TRUE, has |-> embeddings.has,
                X |-> [k \in 1..Len(embeddings.X) |->
                          embeddings.X[Len(embeddings.X) + 1 - k]]]
    /\ ret' = Ret("save_index", "ok")
    /\ UNCHANGED <<items, embeddings, knn, encoder, tiebreak, encVars, colVars>>

save_index ==
    /\ disk' = [exists |-> TRUE, has |-> embeddings.has, X |-> embeddings.X]
    /\ ret' = Ret("save_index", "ok")
    /\ UNCHANGED <<items, embeddings, knn, encoder, tiebreak, encVars, colVars>>

load_index ==
    /\ IF ~disk.exists \/ ~disk.has
       THEN /\ ret' = Ret("load_index", "raise")
            /\ UNCHANGED <<embeddings, knn>>
       ELSE /\ embeddings' = [has |-> TRUE, X |-> disk.X]
            /\ knn' = Fit(MinOf(DefaultNeighbors, Len(disk.X)), disk.X)
            /\ ret' = Ret("load_index",
                          IF Len(disk.X) = 0 THEN "raise" ELSE "ok")
    /\ UNCHANGED <<items, disk, encoder, tiebreak, encVars, colVars>>

recommend_result_index_first(its, emb, nn, tb, title, n) ==
    LET idx == find_item(its, title)
        n_query == MinOf(Len(its), QueryNeighbors)
        base == [Ret("recommend", "raise") EXCEPT
                    !.title = title, !.n = n, !.idx = idx]
    IN IF ~emb.has \/ idx > Len(emb.X) \/ KNeighborsRaises(nn, n_query)
       THEN base
       ELSE IF idx = NotFound THEN [base EXCEPT !.kind = "none"]
       ELSE LET nbrs == kneighbors(nn, emb.X[idx], n_query, tb)
                walk == Walk(its, nbrs, 1, idx, n, EmptyBuckets)
            IN IF walk.raised THEN [base EXCEPT !.nbrs = nbrs]
               ELSE [base EXCEPT !.kind = "ok", !.source = idx,
                                 !.nbrs = nbrs, !.results = walk.results]

recommend_result(its, emb, nn, tb, title, n) ==
    LET idx == find_item(its, title)
        n_query == MinOf(Len(its), QueryNeighbors)
        base == [Ret("recommend", "raise") EXCEPT
                    !.title = title, !.n = n, !.idx = idx]
    IN IF idx = NotFound THEN [base EXCEPT !.kind = "none"]
       ELSE IF ~emb.has \/ idx > Len(emb.X) \/ KNeighborsRaises(nn, n_query)
       THEN base
       ELSE LET nbrs == kneighbors(nn, emb.X[idx], n_query, tb)
                walk == Walk(its, nbrs, 1, idx, n, EmptyBuckets)
            IN IF walk.raised THEN [base EXCEPT !.nbrs = nbrs]
               ELSE [base EXCEPT !.kind = "ok", !.source = idx,
                                 !.nbrs = nbrs, !.results = walk.results]

(* The library leaves the order of equal distances open: every call may   *)
(* see any order of the indexed positions.                                *)
recommend_with(titles, limits) ==
    /\ \E title \in titles : \E n \in limits :
          ret' \in {recommend_result(items, embeddings, knn, tb, title, n) :
                       tb \in TieOrders[Len(knn.X)]}
    /\ UNCHANGED <<items, embeddings, knn, disk, encoder, tiebreak, encVars, colVars>>

----------------------------------------------------------------------------
(* Any order of method calls on one MediaRecommender.  Each catalog file  *)
(* is missing or holds one record, and the queries are one title that     *)
(* resolves and one that does not.                                        *)

ApiTitles == {Str1("n"), Str1("z")}

load_data ==
    load_data_from({<<>>, <<RawN>>}, {<<>>, <<RawM>>}, {<<>>, <<RawUntitled>>})

recommend == recommend_with(ApiTitles, {1})

(* The caller takes the returned value (or the exception) and goes on to *)
(* its next call.                                                         *)
Ready == ret.op \in {"__init__", "return"}

api_return ==
    /\ ~Ready
    /\ ret' = Ret("return", "ok")
    /\ UNCHANGED <<items, embeddings, knn, disk, encoder, tiebreak, encVars, colVars>>

Next ==
    \/ Ready /\ load_data
    \/ Ready /\ build_index
    \/ Ready /\ save_index
    \/ Ready /\ load_index
    \/ Ready /\ recommend
    \/ api_return

Spec == Init /\ [][Next]_vars

----------------------------------------------------------------------------
(* run_recommender.main without a persisted file: load the catalog once,  *)
(* build the index once, then answer queries.                             *)

main_load ==
    /\ ret.op = "__init__"
    /\ load_data_from(SeqsUpTo(AnimePool, MaxItems), SeqsUpTo(MangaPool, MaxItems),
                      SeqsUpTo(MoviePool, MaxItems))

main_build == ret.op = "load_data" /\ build_index

main_query ==
    /\ \/ ret.op = "build_index" /\ ret.kind = "ok"
       \/ ret.op = "display_results"
    /\ recommend_with(QueryTitles, 0..MaxPerType)

main_display ==
    /\ ret.op = "recommend"
    /\ ret' = Ret("display_results", "ok")
    /\ UNCHANGED <<items, embeddings, knn, disk, encoder, tiebreak, encVars, colVars>>

NextQuery == main_load \/ main_build \/ main_query \/ main_display

SpecQuery == Init /\ [][NextQuery]_vars


----------------------------------------------------------------------------
(* Start-up of run_recommender.main and of streamlit load_recommender:    *)
(* the embeddings file an earlier run left (or none), the catalog as it   *)
(* is now.                                                                *)

StoredFiles ==
    {NoFile, [exists |-> TRUE, has |-> FALSE, X |-> <<>>]}
        \cup {[exists |-> TRUE, has |-> TRUE, X |-> X] : X \in SeqsUpTo(Vecs, MaxItems)}

InitStored ==
    /\ items = <<>>
    /\ embeddings = NoEmb
    /\ knn = NoKnn
    /\ disk \in StoredFiles
    /\ encoder \in [TextPool -> Vecs]
    /\ tiebreak = ByPosition
    /\ ret = Ret("__init__", "ok")
    /\ encIn = <<>>
    /\ encOut = EncIdle
    /\ NoCollection

(* old["embeddings"].shape[0] != len(recommender.items) *)
CountsMatch_any(file, its) == TRUE

CountsMatch(file, its) == Len(file.X) = Len(its)

start_load == ret.op = "__init__" /\ load_data

(* np.load(emb_path)["embeddings"] on a file without that array *)
start_unreadable ==
    /\ ret.op = "load_data"
    /\ disk.exists /\ ~disk.has
    /\ ret' = Ret("main", "raise")
    /\ UNCHANGED <<items, embeddings, knn, disk, encoder, tiebreak, encVars, colVars>>

start_restore ==
    /\ ret.op = "load_data"
    /\ disk.exists /\ disk.has /\ CountsMatch(disk, items)
    /\ load_index

start_build ==
    /\ ret.op = "load_data"
    /\ \/ ~disk.exists
       \/ disk.exists /\ disk.has /\ ~CountsMatch(disk, items)
    /\ build_index

start_save == ret.op = "build_index" /\ ret.kind = "ok" /\ save_index

start_query ==
    /\ \/ ret.op = "save_index"
       \/ ret.op = "load_index" /\ ret.kind = "ok"
       \/ ret.op = "display_results"
    /\ recommend_with(Titles, {1, MaxPerType})

start_display ==
    /\ ret.op = "recommend"
    /\ ret' = Ret("display_results", "ok")
    /\ UNCHANGED <<items, embeddings, knn, disk, encoder, tiebreak, encVars, colVars>>

NextStart ==
    \/ start_load
    \/ start_unreadable
    \/ start_restore
    \/ start_build
    \/ start_save
    \/ start_query
    \/ start_display

SpecStart == InitStored /\ [][NextStart]_vars

----------------------------------------------------------------------------
(* Any order of method calls on one MediaRecommender started next to the  *)
(* embeddings file of an earlier run.                                     *)

restart_load == Ready /\ load_data
restart_build == Ready /\ build_index
restart_load_index == Ready /\ load_index
restart_recommend == Ready /\ recommend

NextRestart ==
    \/ restart_load
    \/ restart_build
    \/ restart_load_index
    \/ restart_recommend
    \/ api_return

SpecRestart == InitStored /\ [][NextRestart]_vars

----------------------------------------------------------------------------
(* Method calls in any order on a recommender whose data directory holds  *)
(* no catalog file, with or without an embeddings file of an earlier run. *)

empty_load == Ready /\ load_data_from({<<>>}, {<<>>}, {<<>>})

empty_recommend == Ready /\ recommend_with(QueryTitles, 0..MaxPerType)

NextEmpty ==
    \/ empty_load
    \/ restart_build
    \/ restart_load_index
    \/ empty_recommend
    \/ api_return

SpecEmpty == InitStored /\ [][NextEmpty]_vars

----------------------------------------------------------------------------
(* build_index, save_index, load_index in a row on one catalog. *)

round_save == ret.op = "build_index" /\ ret.kind = "ok" /\ save_index

round_restore == ret.op = "save_index" /\ load_index

NextRound == main_load \/ main_build \/ round_save \/ round_restore

SpecRound == Init /\ [][NextRound]_vars

----------------------------------------------------------------------------
(* Queries repeated on one built index.  The library's selection and sort *)
(* are fixed algorithms: within one run the same distances come back in   *)
(* the same order, an order the library does not specify.  Spec and       *)
(* SpecQuery let every call see any order, which covers every run; here   *)
(* the run's order is one priority among the positions, chosen at start.  *)

RepeatLimits == {1, MaxPerType}

InitRepeat ==
    /\ items = <<>>
    /\ embeddings = NoEmb
    /\ knn = NoKnn
    /\ disk = NoFile
    /\ encoder \in [TextPool -> Vecs]
    /\ tiebreak \in Perms(1..MaxItems)
    /\ ret = Ret("__init__", "ok")
    /\ encIn = <<>>
    /\ encOut = EncIdle
    /\ NoCollection

repeat_load ==
    /\ ret.op = "__init__"
    /\ load_data_from(SeqsUpTo(AnimePool, MaxItems), SeqsUpTo(MangaPool, MaxItems),
                      SeqsUpTo(MoviePool, MaxItems))

repeat_build == ret.op = "load_data" /\ build_index

(* A call made after an earlier call returned prev: recommend keeps no    *)
(* record of earlier calls and writes none of items, embeddings, knn.     *)
recommend_again_unseen_only(prev, its, emb, nn, tb, title, n) ==
    LET now == recommend_result(its, emb, nn, tb, title, n)
        seen == UNION {{prev.results[mtype][k].i : k \in 1..Len(prev.results[mtype])} :
                          mtype \in DOMAIN prev.results}
    IN [now EXCEPT !.results =
            [mtype \in DOMAIN now.results |->
                SelectSeq(now.results[mtype], LAMBDA e : e.i \notin seen)]]

recommend_again(prev, its, emb, nn, tb, title, n) ==
    recommend_result(its, emb, nn, tb, title, n)

repeat_query ==
    /\ \/ ret.op = "build_index" /\ ret.kind = "ok"
       \/ ret.op = "recommend"
    /\ \E title \in Titles : \E n \in RepeatLimits :
          ret' = recommend_again(ret, items, embeddings, knn, tiebreak, title, n)
    /\ UNCHANGED <<items, embeddings, knn, disk, encoder, tiebreak, encVars, colVars>>

NextRepeat == repeat_load \/ repeat_build \/ repeat_query

SpecRepeat == InitRepeat /\ [][NextRepeat]_vars

----------------------------------------------------------------------------
(* TagEncoder.encode called on one item.  The items cover every optional  *)
(* field absent, null, empty and filled, tags of every rank tier and a    *)
(* description shorter and longer than the limit, with and without markup.*)

Absent == <<>>

Field(key, value) == key :> value

Rep(c, m) == [k \in 1..m |-> c]

Tag(name, rank, desc) ==
    [name |-> PyStr(Str1(name)), rank |-> PyInt(rank), description |-> PyStr(Str1(desc))]

EncGenres == {Absent, Field("genres", PyNone)}
    \cup {Field("genres", PyList(g)) :
            g \in {<<>>, <<Str1("a")>>, <<Str1("a"), Str1("a")>>, <<Str1("b"), Str1("a")>>}}

EncTagLists ==
    {<<>>,
     <<Tag("t", 85, "d")>>, <<Tag("t", 80, "d")>>, <<Tag("t", 79, "d")>>,
     <<Tag("t", 60, "d")>>, <<Tag("t", 59, "d")>>, <<Tag("t", 0, "d")>>,
     <<[name |-> PyStr(Str1("t"))]>>,
     <<[name |-> PyStr(Str1("t")), rank |-> PyInt(90)]>>,
     <<[name |-> PyStr(Str1("t")), rank |-> PyInt(90), description |-> PyNone]>>,
     <<[name |-> PyStr(Str1("t")), rank |-> PyInt(70), description |-> PyNone]>>,
     <<[name |-> PyStr(Str1("t")), rank |-> PyNone]>>,
     <<[rank |-> PyInt(70)]>>,
     <<Tag("t", 10, "d"), Tag("u", 100, "e")>>,
     <<Tag("t", 70, "d"), Tag("t", 70, "d")>>}

EncTags == {Absent, Field("tags", PyNone)}
    \cup {Field("tags", PyList(l)) : l \in EncTagLists}

EncKeywords == {Absent, Field("keywords", PyNone)}
    \cup {Field("keywords", PyList(k)) :
            k \in {<<>>, <<Str1("k")>>, <<Str1("k"), Str1("k")>>, <<Str1("k"), Str1("j")>>}}

EncDescriptions == {Absent, Field("description", PyNone)}
    \cup {Field("description", PyStr(d)) :
            d \in {<<>>, <<"x", "y">>, <<"<", "b", ">", "x", "<", "/", "b", ">", "y">>,
                   <<"<", ">", "x">>, <<"x", "<", "y">>,
                   Rep("x", DescLimit), Rep("x", DescLimit + 1),
                   Rep("x", DescLimit - 1) \o <<"<", "i", ">", "y", "z">>}}

EncItems ==
    {g @@ t @@ k @@ d : g \in EncGenres, t \in EncTags, k \in EncKeywords,
                        d \in EncDescriptions}

(* encode only reads the item (item.get, tag["name"], tag.get): the dict  *)
(* the caller passed holds the same keys and values after the call.       *)
ItemAfterEncode_pop_description(item) ==
    [key \in (DOMAIN item) \ {"description"} |-> item[key]]

ItemAfterEncode(item) == item

encode ==
    /\ ~encOut.called
    /\ encOut' = [called |-> TRUE] @@ Encode(encIn) @@ EncIdle
    /\ encIn' = ItemAfterEncode(encIn)
    /\ UNCHANGED <<recVars, colVars>>

(* A second call on the item the first call left behind. *)
encode_again ==
    /\ encOut.called
    /\ ret.op = "__init__"
    /\ encOut' = [called |-> TRUE] @@ Encode(encIn) @@ EncIdle
    /\ encIn' = ItemAfterEncode(encIn)
    /\ ret' = Ret("encode_again", "ok")
    /\ UNCHANGED <<items, embeddings, knn, disk, encoder, tiebreak, colVars>>

InitEnc ==
    /\ items = <<>>
    /\ embeddings = NoEmb
    /\ knn = NoKnn
    /\ disk = NoFile
    /\ encoder = [text \in TextPool |-> <<5, 0>>]
    /\ tiebreak = ByPosition
    /\ ret = Ret("__init__", "ok")
    /\ encIn \in EncItems
    /\ encOut = EncIdle
    /\ NoCollection

NextEnc == encode \/ encode_again

SpecEnc == InitEnc /\ [][NextEnc]_vars


----------------------------------------------------------------------------
(* The two-item catalog: anime "A" (id 1) and movie "B" (id 2), both with *)
(* genres ["action"], loaded, indexed and queried as run_recommender.main *)
(* does.  Either record may be missing, and a manga may be present.       *)

Action == <<"a", "c", "t", "i", "o", "n">>

RawA == [id |-> PyInt(1), title |-> PyStr(Str1("A")), genres |-> PyList(<<Action>>)]
RawB == [id |-> PyInt(2), title |-> PyStr(Str1("B")), genres |-> PyList(<<Action>>)]

PairTexts == TextPool \cup {Encode(RawA).text, Encode(RawB).text}

PairTitles == {Str1("A"), Str1("B"), Str1("a"), Str1("z")}

InitPair ==
    /\ items = <<>>
    /\ embeddings = NoEmb
    /\ knn = NoKnn
    /\ disk = NoFile
    /\ encoder \in [PairTexts -> Vecs]
    /\ tiebreak = ByPosition
    /\ ret = Ret("__init__", "ok")
    /\ encIn = <<>>
    /\ encOut = EncIdle
    /\ NoCollection

pair_load ==
    /\ ret.op = "__init__"
    /\ load_data_from({<<>>, <<RawA>>}, {<<>>, <<RawM>>}, {<<>>, <<RawB>>})

pair_query ==
    /\ \/ ret.op = "build_index" /\ ret.kind = "ok"
       \/ ret.op = "display_results"
    /\ recommend_with(PairTitles, 0..MaxPerType)

NextPair == pair_load \/ main_build \/ pair_query \/ main_display

SpecPair == InitPair /\ [][NextPair]_vars

----------------------------------------------------------------------------
(* The loop of recommend over one neighbour list (lines 140-153), on a    *)
(* catalog of WalkLen media types.  The list holds every catalog position *)
(* once, nearest first; all type sequences are tried, so the list runs    *)
(* through the catalog forwards or backwards.                             *)

TypedCatalogs ==
    [1..WalkLen -> {[media_type |-> mtype] : mtype \in {"anime", "manga", "movie"}}]

NeighbourLists ==
    {[k \in 1..WalkLen |-> [i |-> k, dist |-> k - 1]],
     [k \in 1..WalkLen |-> [i |-> WalkLen + 1 - k, dist |-> k - 1]]}

InitWalk ==
    /\ items \in TypedCatalogs
    /\ embeddings = NoEmb
    /\ knn = NoKnn
    /\ disk = NoFile
    /\ encoder = [text \in TextPool |-> <<5, 0>>]
    /\ tiebreak = ByPosition
    /\ \E idx \in 1..WalkLen : \E n \in 0..MaxPerType : \E nbrs \in NeighbourLists :
          ret = [Ret("kneighbors", "ok") EXCEPT !.idx = idx, !.n = n, !.nbrs = nbrs]
    /\ encIn = <<>>
    /\ encOut = EncIdle
    /\ NoCollection

walk ==
    /\ ret.op = "kneighbors"
    /\ ret' = [ret EXCEPT !.op = "walk", !.source = ret.idx,
                          !.results = Walk(items, ret.nbrs, 1, ret.idx, ret.n,
                                           EmptyBuckets).results]
    /\ UNCHANGED <<items, embeddings, knn, disk, encoder, tiebreak, encVars, colVars>>

NextWalk == walk

SpecWalk == InitWalk /\ [][NextWalk]_vars

----------------------------------------------------------------------------
(* TMDbClient (ML/data_collection/tmdb_client.py).  Time is counted in    *)
(* half seconds.  The client holds request_count and window_start; the    *)
(* clock now and the send times of the last RateLimit + 1 requests are    *)
(* kept beside them.  A caller calls get at once or after IdleWait; the   *)
(* server answers 200, 404 or 429, the last with Retry-After 0, or with   *)
(* none (the default applies).                                            *)

RateLimit == 40
Threshold == 35
Window == 20
Pad == 1
DefaultRetryAfter == 20

NewClient ==
    [exists |-> TRUE, request_count |-> 0, window_start |-> 0, now |-> 0,
     sent |-> <<>>, status |-> 0, retry_after |-> 0]

_rate_limit(c) ==
    LET count == c.request_count + 1
        elapsed == c.now - c.window_start
        woken == IF elapsed < Window THEN c.now + (Window - elapsed + Pad)
                 ELSE c.now
    IN IF count >= Threshold
       THEN [c EXCEPT !.request_count = 0, !.now = woken, !.window_start = woken]
       ELSE [c EXCEPT !.request_count = count]

LastSent(sent) ==
    IF Len(sent) > RateLimit + 1
    THEN SubSeq(sent, Len(sent) - RateLimit, Len(sent))
    ELSE sent

(* requests.get after _rate_limit, and the server's answer. *)
Requested(c, status, retry_after) ==
    LET limited == _rate_limit(c)
    IN [limited EXCEPT !.sent = LastSent(Append(@, limited.now)),
                       !.status = status, !.retry_after = retry_after]

Answers ==
    {[status |-> 200, retry_after |-> 0], [status |-> 404, retry_after |-> 0],
     [status |-> 429, retry_after |-> 0],
     [status |-> 429, retry_after |-> DefaultRetryAfter]}

(* A call of get by the collector, after the previous call returned or    *)
(* raised.                                                                *)
client_get ==
    /\ tmdb.status # 429
    /\ \E wait \in {0, IdleWait} : \E answer \in Answers :
          LET c == Requested([tmdb EXCEPT !.now = @ + wait],
                             answer.status, answer.retry_after)
          IN /\ c.now <= MaxTime
             /\ tmdb' = c
    /\ UNCHANGED <<recVars, encVars, mc, al>>

(* status 429: time.sleep(retry_after); return self.get(endpoint, params) *)
client_retry ==
    /\ tmdb.status = 429
    /\ \E answer \in Answers :
          LET c == Requested([tmdb EXCEPT !.now = @ + tmdb.retry_after],
                             answer.status, answer.retry_after)
          IN /\ c.now <= MaxTime
             /\ tmdb' = c
    /\ UNCHANGED <<recVars, encVars, mc, al>>

InitRate ==
    /\ items = <<>>
    /\ embeddings = NoEmb
    /\ knn = NoKnn
    /\ disk = NoFile
    /\ encoder = [text \in TextPool |-> <<5, 0>>]
    /\ tiebreak = ByPosition
    /\ ret = Ret("__init__", "ok")
    /\ encIn = <<>>
    /\ encOut = EncIdle
    /\ tmdb = NewClient
    /\ mc = NoCollector
    /\ al = NoFetch

NextRate == client_get \/ client_retry

SpecRate == InitRate /\ [][NextRate]_vars

----------------------------------------------------------------------------
(* MovieCollector (ML/data_collection/collector.py).  A profile and an    *)
(* error entry are held by their tmdb_id; get_movie answers with the      *)
(* movie asked for, or raises.  fetched counts the get_movie calls per id *)
(* and those that raised, skipped holds the ids passed over as seen.  op, page and pages are the       *)
(* position in the running collect call, one step per page of its loop;   *)
(* they are back at their first values when the call has returned or      *)
(* raised.                                                                *)
(* The client's own counters are the subject of SpecRate and are not      *)
(* carried here.                                                          *)

MovieIds == 1..MaxIds

NewCollector ==
    [exists |-> TRUE, collected |-> <<>>, errors |-> <<>>, seen_ids |-> {},
     fetched |-> [id \in MovieIds |-> [calls |-> 0, failed |-> 0]],
     skipped |-> {}, op |-> "none", page |-> 1, pages |-> 0, raised |-> FALSE]

(* load: collected from a file that save wrote, seen_ids from collected.  *)
load(c, movies) ==
    [c EXCEPT !.collected = movies,
              !.seen_ids = {movies[k].tmdb_id : k \in 1..Len(movies)}]

SavedMovies ==
    {movies \in SeqsUpTo({[tmdb_id |-> id] : id \in MovieIds}, MaxIds) :
        \A j, k \in 1..Len(movies) : movies[j] = movies[k] => j = k}

(* One entry of a list page: an id and a title, or no id. *)
ListedMovies ==
    {[id |-> id, title |-> Str1("t")] : id \in MovieIds} \cup {[title |-> Str1("t")]}

(* A page of results, or the request for it raising. *)
PageFailed == [raised |-> TRUE]
Responses ==
    {[raised |-> FALSE, results |-> results] :
        results \in SeqsUpTo(ListedMovies, PageLen)} \cup {PageFailed}

RECURSIVE _process_page_seen_on_success(_, _, _, _)
_process_page_seen_on_success(c, results, k, failing) ==
    IF k > Len(results) THEN c
    ELSE IF "id" \notin DOMAIN results[k] THEN [c EXCEPT !.raised = TRUE]
    ELSE LET tmdb_id == results[k].id
         IN IF tmdb_id \in c.seen_ids
            THEN _process_page_seen_on_success([c EXCEPT !.skipped = @ \cup {tmdb_id}],
                                               results, k + 1, failing)
            ELSE IF tmdb_id \in failing
            THEN _process_page_seen_on_success(
                     [c EXCEPT !.fetched[tmdb_id] = [calls |-> @.calls + 1,
                                                     failed |-> @.failed + 1],
                               !.errors = Append(@, [tmdb_id |-> tmdb_id])],
                     results, k + 1, failing)
            ELSE _process_page_seen_on_success(
                     [c EXCEPT !.seen_ids = @ \cup {tmdb_id},
                               !.fetched[tmdb_id].calls = @ + 1,
                               !.collected = Append(@, [tmdb_id |-> tmdb_id])],
                     results, k + 1, failing)

(* failing: the ids whose get_movie or _build_profile raises. *)
RECURSIVE _process_page(_, _, _, _)
_process_page(c, results, k, failing) ==
    IF k > Len(results) THEN c
    ELSE IF "id" \notin DOMAIN results[k] THEN [c EXCEPT !.raised = TRUE]
    ELSE LET tmdb_id == results[k].id
             seen == [c EXCEPT !.seen_ids = @ \cup {tmdb_id}]
         IN IF tmdb_id \in c.seen_ids
            THEN _process_page([c EXCEPT !.skipped = @ \cup {tmdb_id}],
                               results, k + 1, failing)
            ELSE IF tmdb_id \in failing
            THEN _process_page(
                     [seen EXCEPT !.fetched[tmdb_id] = [calls |-> @.calls + 1,
                                                     failed |-> @.failed + 1],
                                  !.errors = Append(@, [tmdb_id |-> tmdb_id])],
                     results, k + 1, failing)
            ELSE _process_page(
                     [seen EXCEPT !.fetched[tmdb_id].calls = @ + 1,
                                  !.collected = Append(@, [tmdb_id |-> tmdb_id])],
                     results, k + 1, failing)

Listed(results) ==
    {results[k].id : k \in {j \in 1..Len(results) : "id" \in DOMAIN results[j]}}

Collecting == mc.op # "none"

(* The call is over after its last page, or when a page raised. *)
Returned(c) ==
    IF c.raised \/ c.page > c.pages
    THEN [c EXCEPT !.op = "none", !.page = 1, !.pages = 0]
    ELSE c

(* The next page of the call op: the first page of a new call when none   *)
(* is running.                                                            *)
collect_page(op) ==
    /\ Collecting => mc.op = op
    /\ \E pages \in (IF Collecting THEN {mc.pages} ELSE 1..MaxPages) :
       \E response \in Responses :
          LET c == IF Collecting THEN mc
                   ELSE [mc EXCEPT !.op = op, !.page = 1, !.pages = pages,
                                   !.raised = FALSE]
          IN IF response.raised THEN mc' = Returned([c EXCEPT !.raised = TRUE])
             ELSE \E failing \in SUBSET (Listed(response.results) \ mc.seen_ids) :
                     mc' = Returned([_process_page(c, response.results, 1, failing)
                                        EXCEPT !.page = @ + 1])
    /\ UNCHANGED <<recVars, encVars, tmdb, al>>

collect_popular == collect_page("collect_popular")

collect_top_rated == collect_page("collect_top_rated")

collect_by_genre == collect_page("collect_by_genre")

collect_by_decade == collect_page("collect_by_decade")

InitCollect ==
    /\ items = <<>>
    /\ embeddings = NoEmb
    /\ knn = NoKnn
    /\ disk = NoFile
    /\ encoder = [text \in TextPool |-> <<5, 0>>]
    /\ tiebreak = ByPosition
    /\ ret = Ret("__init__", "ok")
    /\ encIn = <<>>
    /\ encOut = EncIdle
    /\ tmdb = NoClient
    /\ mc \in {NewCollector} \cup {load(NewCollector, movies) : movies \in SavedMovies}
    /\ al = NoFetch

NextCollect ==
    collect_popular \/ collect_top_rated \/ collect_by_genre \/ collect_by_decade

SpecCollect == InitCollect /\ [][NextCollect]_vars

----------------------------------------------------------------------------
(* get_all_media_with_retry (ML/data_collection/anillist.py): the locals  *)
(* of one call.  all_media holds, for each item, the page it came from.   *)
(* A pass of the while loop is two steps: the request is posted         *)
(* (awaiting), then the answer of the server or the network is handled.   *)
(* The server has pages up to LastPage, of at most PerPage items.         *)

MaxRetries == 5

NewFetch(max_items) ==
    [exists |-> TRUE, max_items |-> max_items, all_media |-> <<>>, page |-> 1,
     has_next_page |-> TRUE, total_fetched |-> 0, retry_count |-> 0,
     awaiting |-> FALSE, stopped |-> FALSE, done |-> FALSE]

Outcomes ==
    {[kind |-> "page", media |-> media, hasNextPage |-> more] :
        media \in 0..PerPage, more \in BOOLEAN}
    \cup {[kind |-> kind] : kind \in {"429", "too_many_requests", "api_error",
                                      "network_error", "unexpected_error"}}

Looping(f) == ~f.stopped /\ f.has_next_page /\ f.total_fetched < f.max_items

PageAdded(f, outcome) ==
    LET remaining == f.max_items - f.total_fetched
        items_to_add == MinOf(outcome.media, remaining)
        total == f.total_fetched + items_to_add
    IN [f EXCEPT !.all_media = @ \o [k \in 1..items_to_add |-> f.page],
                 !.total_fetched = total,
                 !.has_next_page = outcome.hasNextPage /\ total < f.max_items,
                 !.page = @ + 1,
                 !.retry_count = 0]

NetworkError(f) ==
    IF f.retry_count + 1 >= MaxRetries
    THEN [f EXCEPT !.retry_count = @ + 1, !.stopped = TRUE]
    ELSE [f EXCEPT !.retry_count = @ + 1]

After(f, outcome) ==
    CASE outcome.kind = "page" -> PageAdded(f, outcome)
      [] outcome.kind \in {"429", "too_many_requests"} -> f
      [] outcome.kind = "network_error" -> NetworkError(f)
      [] OTHER -> [f EXCEPT !.stopped = TRUE]

post_request ==
    /\ al.exists /\ ~al.done /\ ~al.awaiting /\ Looping(al)
    /\ al' = [al EXCEPT !.awaiting = TRUE]
    /\ UNCHANGED <<recVars, encVars, tmdb, mc>>

handle_response ==
    /\ al.exists /\ al.awaiting
    /\ \E outcome \in Outcomes :
          /\ outcome.kind = "page" => al.page <= LastPage
          /\ al' = After([al EXCEPT !.awaiting = FALSE], outcome)
    /\ UNCHANGED <<recVars, encVars, tmdb, mc>>

return_media ==
    /\ al.exists /\ ~al.done /\ ~al.awaiting /\ ~Looping(al)
    /\ al' = [al EXCEPT !.done = TRUE]
    /\ UNCHANGED <<recVars, encVars, tmdb, mc>>

InitFetch ==
    /\ items = <<>>
    /\ embeddings = NoEmb
    /\ knn = NoKnn
    /\ disk = NoFile
    /\ encoder = [text \in TextPool |-> <<5, 0>>]
    /\ tiebreak = ByPosition
    /\ ret = Ret("__init__", "ok")
    /\ encIn = <<>>
    /\ encOut = EncIdle
    /\ tmdb = NoClient
    /\ mc = NoCollector
    /\ al \in {NewFetch(max_items) : max_items \in 0..FetchMax}

NextFetch == post_request \/ handle_response \/ return_media

(* The call runs on: every sleep is finite and the loop takes its next    *)
(* pass.                                                                  *)
SpecFetch == InitFetch /\ [][NextFetch]_vars /\ WF_vars(NextFetch)

----------------------------------------------------------------------------
(* Title resolution on one catalog item, at its three sites: the lookup   *)
(* (_get_title), the web page (get_display_title) and the console         *)
(* (display_results).  The title is absent, null, a string, or a dict     *)
(* whose english and romaji are null (or absent), empty or a name.        *)

TitleParts == {PyNone, PyStr(<<>>), PyStr(Str1("E")), PyStr(Str1("R"))}

TitleShapes ==
    {PyNone, PyStr(<<>>), PyStr(Str1("N"))}
        \cup {PyDict(e, r) : e \in TitleParts, r \in TitleParts}

TitledItems ==
    {[media_type |-> mtype] : mtype \in {"anime", "manga", "movie"}}
        \cup {[media_type |-> mtype, title |-> title] :
                  mtype \in {"anime", "manga", "movie"}, title \in TitleShapes}

get_display_title(item) ==
    LET title == IF "title" \in DOMAIN item THEN item.title ELSE PyStr(Unknown)
    IN IF title.t = "dict"
       THEN IF Truthy(title.english) THEN title.english.s
            ELSE IF Truthy(title.romaji) THEN title.romaji.s
            ELSE Unknown
       ELSE PyStrOf(title)

(* display_results prints the title in an f-string, which formats a value *)
(* that is not a string as str() does.                                    *)
display_results_title(source) ==
    LET title == IF "title" \in DOMAIN source THEN source.title ELSE PyStr(Unknown)
    IN IF title.t = "dict"
       THEN IF Truthy(title.english) THEN title.english.s
            ELSE IF Truthy(title.romaji) THEN title.romaji.s
            ELSE Unknown
       ELSE PyStrOf(title)

Shown(op, title) == [Ret(op, "ok") EXCEPT !.title = title]

lookup_title ==
    /\ ret' = Shown("_get_title", _get_title(items[1]))
    /\ UNCHANGED <<items, embeddings, knn, disk, encoder, tiebreak, encVars, colVars>>

page_title ==
    /\ ret' = Shown("get_display_title", get_display_title(items[1]))
    /\ UNCHANGED <<items, embeddings, knn, disk, encoder, tiebreak, encVars, colVars>>

console_title ==
    /\ ret' = Shown("display_results", display_results_title(items[1]))
    /\ UNCHANGED <<items, embeddings, knn, disk, encoder, tiebreak, encVars, colVars>>

InitTitle ==
    /\ items \in {<<item>> : item \in TitledItems}
    /\ embeddings = NoEmb
    /\ knn = NoKnn
    /\ disk = NoFile
    /\ encoder = [text \in TextPool |-> <<5, 0>>]
    /\ tiebreak = ByPosition
    /\ ret = Ret("__init__", "ok")
    /\ encIn = <<>>
    /\ encOut = EncIdle
    /\ NoCollection

NextTitle == lookup_title \/ page_title \/ console_title

SpecTitle == InitTitle /\ [][NextTitle]_vars

----------------------------------------------------------------------------
(* Properties of title lookup and of recommend *)

Queried == ret.op = "recommend"

Answered == Queried /\ ret.kind = "ok"

NormalisedQuery == Strip(Lower(ret.title))

TitleIs(i, q) == Lower(_get_title(items[i])) = q

TitleHas(i, q) == Contains(q, Lower(_get_title(items[i])))

Bucket(mtype) == ret.results[mtype]

OthersOfType(mtype) ==
    {i \in 1..Len(items) : i # ret.idx /\ MediaTypeOf(items[i]) = mtype}

(* C1: title lookup is two-phase and case-insensitive.  When some display  *)
(* title equals the query (letter case ignored, the query stripped of      *)
(* surrounding whitespace) the lookup returns the lowest position with an *)
(* exact match, even when a lower position only contains the query; only  *)
(* when no title equals the query does it return the lowest position      *)
(* whose title contains the query.                                        *)
C1_TwoPhaseLookup ==
    Queried =>
        LET q == NormalisedQuery
            exactExists == \E i \in 1..Len(items) : TitleIs(i, q)
        IN /\ exactExists =>
                /\ ret.idx \in 1..Len(items)
                /\ TitleIs(ret.idx, q)
                /\ \A i \in 1..Len(items) : TitleIs(i, q) => ret.idx <= i
           /\ (~exactExists /\ \E i \in 1..Len(items) : TitleHas(i, q)) =>
                /\ ret.idx \in 1..Len(items)
                /\ TitleHas(ret.idx, q)
                /\ \A i \in 1..Len(items) : TitleHas(i, q) => ret.idx <= i

(* An exact match at position 2 wins over position 1, which only contains *)
(* the query; the title and the query differ in letter case.              *)
C1_Witness ==
    /\ Queried
    /\ ret.idx = 2
    /\ TitleIs(2, NormalisedQuery)
    /\ TitleHas(1, NormalisedQuery) /\ ~TitleIs(1, NormalisedQuery)
    /\ _get_title(items[2]) # NormalisedQuery

(* C2: recommend with a title that no display title equals or contains    *)
(* returns None, does not query the index and leaves the catalog, the     *)
(* embeddings, the index and the persisted file unchanged; it does so     *)
(* whether or not an index exists.                                        *)
C2_NotFoundReturnsNone ==
    [][(ret'.op = "recommend"
            /\ \A i \in 1..Len(items) : ~TitleHas(i, Strip(Lower(ret'.title))))
        => /\ ret'.kind = "none"
           /\ ret'.idx = NotFound
           /\ ret'.nbrs = <<>>
           /\ ret'.results = EmptyBuckets
           /\ items' = items /\ embeddings' = embeddings
           /\ knn' = knn /\ disk' = disk]_vars

(* A title that resolves to nothing on a non-empty catalog with no index. *)
C2_Witness ==
    /\ Queried /\ ret.kind = "none"
    /\ Len(items) > 0
    /\ knn.state = "none"

(* C3: every bucket holds at most perTypeLimit entries; a type with fewer *)
(* other members than perTypeLimit gets all of them (possibly none) and   *)
(* the call still returns normally.                                       *)
C3_BoundedBuckets ==
    (Queried /\ ret.idx # NotFound) =>
        /\ ret.kind = "ok"
        /\ \A mtype \in DOMAIN ret.results :
              /\ Len(Bucket(mtype)) <= ret.n
              /\ Len(Bucket(mtype)) = MinOf(ret.n, Cardinality(OthersOfType(mtype)))

(* One bucket is cut at the limit while another falls short of it.        *)
C3_Witness ==
    /\ Answered
    /\ \E mtype \in DOMAIN ret.results :
          Len(Bucket(mtype)) = ret.n /\ Cardinality(OthersOfType(mtype)) > ret.n
    /\ \E mtype \in DOMAIN ret.results : Len(Bucket(mtype)) < ret.n

(* C4: the source is the item at the position the title resolves to, and  *)
(* that position is in no bucket.                                         *)
C4_SourceExcluded ==
    Answered =>
        /\ ret.source = find_item(items, ret.title)
        /\ \A mtype \in DOMAIN ret.results : \A k \in 1..Len(Bucket(mtype)) :
              Bucket(mtype)[k].i # ret.source

(* A bucket holds another catalog entry with the source's very content.   *)
C4_Witness ==
    /\ Answered
    /\ \E mtype \in DOMAIN ret.results : \E k \in 1..Len(Bucket(mtype)) :
          items[Bucket(mtype)[k].i] = items[ret.source]


(* The neighbour list a query returned: the positions of the indexed      *)
(* vectors, each once, with its distance to the source vector, nearest    *)
(* first.                                                                 *)
NearestFirst(nbrs, X, x) ==
    /\ \A r \in 1..Len(nbrs) :
          /\ nbrs[r].i \in 1..Len(X)
          /\ nbrs[r].dist = Scale - Dot(x, X[nbrs[r].i])
    /\ \A r1, r2 \in 1..Len(nbrs) :
          r1 < r2 => nbrs[r1].i # nbrs[r2].i /\ nbrs[r1].dist <= nbrs[r2].dist
    /\ \A i \in 1..Len(X) :
          (\A r \in 1..Len(nbrs) : nbrs[r].i # i)
              => \A r \in 1..Len(nbrs) : nbrs[r].dist <= Scale - Dot(x, X[i])

(* The ranks, in the neighbour list, of the entries of one type other     *)
(* than the source.                                                       *)
RanksOfType(mtype) ==
    {r \in 1..Len(ret.nbrs) :
        ret.nbrs[r].i # ret.source /\ MediaTypeOf(items[ret.nbrs[r].i]) = mtype}

(* C5: each bucket is the first perTypeLimit neighbours of its type, in   *)
(* ascending distance, among the min(catalogSize, 200) nearest neighbours *)
(* of the source vector without the source; each entry carries            *)
(* similarity = 1 - distance, so a bucket holds its own type only, in     *)
(* descending similarity.                                                 *)
C5_BucketsAreNearestOfType ==
    Answered =>
        /\ Len(ret.nbrs) = MinOf(Len(items), 200)
        /\ NearestFirst(ret.nbrs, embeddings.X, embeddings.X[ret.source])
        /\ \A mtype \in DOMAIN ret.results :
              /\ Len(Bucket(mtype)) = MinOf(ret.n, Cardinality(RanksOfType(mtype)))
              /\ \A k \in 1..Len(Bucket(mtype)) :
                    \E r \in RanksOfType(mtype) :
                        /\ Cardinality({q \in RanksOfType(mtype) : q < r}) = k - 1
                        /\ Bucket(mtype)[k].i = ret.nbrs[r].i
                        /\ Bucket(mtype)[k].sim = Scale - ret.nbrs[r].dist
                        /\ MediaTypeOf(items[Bucket(mtype)[k].i]) = mtype
              /\ \A k1, k2 \in 1..Len(Bucket(mtype)) :
                    k1 < k2 => Bucket(mtype)[k1].sim >= Bucket(mtype)[k2].sim

(* A bucket of two entries of different similarity, the nearer one at the *)
(* higher catalog position.                                               *)
C5_Witness ==
    /\ Answered
    /\ \E mtype \in DOMAIN ret.results :
          /\ Len(Bucket(mtype)) = 2
          /\ Bucket(mtype)[1].sim > Bucket(mtype)[2].sim
          /\ Bucket(mtype)[1].i > Bucket(mtype)[2].i

(* C6: a query never returns more than min(k, indexedCount) entries, and  *)
(* a k above the number of indexed vectors is capped at that number       *)
(* instead of raising: whenever the title resolves and the source has a   *)
(* vector in a fitted index, the query returns min(k, indexedCount)       *)
(* neighbours, k being min(catalogSize, 200).                             *)
C6_NeighbourCountCapped ==
    (/\ Queried /\ ret.idx # NotFound
     /\ knn.state = "fitted" /\ embeddings.has /\ ret.idx <= Len(embeddings.X))
        => Len(ret.nbrs) = MinOf(MinOf(Len(items), QueryNeighbors), Len(knn.X))

(* C7: the query returns the k nearest indexed vectors in ascending       *)
(* distance, and of two vectors at equal distance the one at the lower    *)
(* catalog position comes first and is the one kept.                      *)
C7_TiesByCatalogIndex ==
    (Queried /\ ret.nbrs # <<>>) =>
        /\ NearestFirst(ret.nbrs, knn.X, embeddings.X[ret.idx])
        /\ \A r1, r2 \in 1..Len(ret.nbrs) :
              (r1 < r2 /\ ret.nbrs[r1].dist = ret.nbrs[r2].dist)
                  => ret.nbrs[r1].i < ret.nbrs[r2].i
        /\ \A i \in 1..Len(knn.X) :
              (\A r \in 1..Len(ret.nbrs) : ret.nbrs[r].i # i)
                  => \A r \in 1..Len(ret.nbrs) :
                        \/ ret.nbrs[r].dist
                             < Scale - Dot(embeddings.X[ret.idx], knn.X[i])
                        \/ ret.nbrs[r].i < i


----------------------------------------------------------------------------
(* Properties of TagEncoder.encode, over the parts of a call that returned *)

Encoded == encOut.called /\ ~encOut.raised

InGenres == GetList(encIn, "genres").l
InTags == GetList(encIn, "tags").l
InKeywords == GetList(encIn, "keywords").l

(* The number of parts one tag is said to contribute: three names and a   *)
(* description from rank 80, two names from rank 60, one name below or    *)
(* without a rank.                                                        *)
TagWeight(tag) ==
    IF "rank" \notin DOMAIN tag THEN 1
    ELSE IF tag.rank.n >= 80 THEN 4
    ELSE IF tag.rank.n >= 60 THEN 2
    ELSE 1

RECURSIVE WeightBefore(_, _)
WeightBefore(tags, k) ==
    IF k <= 1 THEN 0 ELSE TagWeight(tags[k - 1]) + WeightBefore(tags, k - 1)

TagsStart == 2 * Len(InGenres)
KeywordsStart == TagsStart + WeightBefore(InTags, Len(InTags) + 1)
DescStart == KeywordsStart + 2 * Len(InKeywords)

HasDescription ==
    /\ "description" \in DOMAIN encIn
    /\ encIn.description.t = "str"
    /\ encIn.description.s # <<>>

(* C8: every tag is weighted by its rank: from rank 80 its name three     *)
(* times followed by its description once; from rank 60 and below 80 its  *)
(* name twice and no description; below 60, or without a rank, its name   *)
(* once and no description.                                               *)
C8_RankWeighting ==
    Encoded =>
        /\ Len(encOut.parts) >= KeywordsStart
        /\ \A k \in 1..Len(InTags) :
              LET tag == InTags[k]
                  o == TagsStart + WeightBefore(InTags, k)
                  names == {j \in 1..TagWeight(tag) : encOut.parts[o + j] = tag.name}
              IN IF "rank" \in DOMAIN tag /\ tag.rank.n >= 80
                 THEN /\ 1..3 \subseteq names
                      /\ encOut.parts[o + 4] =
                            (IF "description" \in DOMAIN tag
                             THEN tag.description ELSE PyStr(<<>>))
                 ELSE IF "rank" \in DOMAIN tag /\ tag.rank.n >= 60
                 THEN names = 1..2
                 ELSE names = 1..1

(* A call that returned on a tag of rank 80, and one on a tag of the      *)
(* lowest tier followed by a tag of the highest.                          *)
C8_Witness ==
    /\ Encoded
    /\ Len(InTags) = 2
    /\ InTags[1].rank.n < 60 /\ InTags[2].rank.n >= 80
    /\ Len(InGenres) > 0
    /\ SubSeq(encOut.parts, TagsStart + 1, KeywordsStart)
          = <<InTags[1].name, InTags[2].name, InTags[2].name, InTags[2].name,
              InTags[2].description>>

C10_DescriptionLast ==
    Encoded =>
        IF HasDescription
        THEN /\ Len(encOut.parts) = DescStart + 1
             /\ LET clean == StripHTML(encIn.description.s)
                    last == encOut.parts[Len(encOut.parts)]
                IN /\ last.t = "str"
                   /\ Len(last.s) = MinOf(Len(clean), 200)
                   /\ \A k \in 1..Len(last.s) : last.s[k] = clean[k]
        ELSE Len(encOut.parts) = DescStart

(* A description whose markup starts inside the first 200 characters and  *)
(* whose stripped text is longer than 200.                                *)
C10_Witness ==
    /\ Encoded
    /\ HasDescription
    /\ Len(encIn.description.s) > 200
    /\ encIn.description.s[200] = "<"
    /\ Len(StripHTML(encIn.description.s)) > 200
    /\ Len(encOut.parts[Len(encOut.parts)].s) = 200
    /\ encOut.parts[Len(encOut.parts)].s[200] = "y"
    /\ Len(encOut.parts) > 1


RECURSIVE PartStart(_, _)
PartStart(parts, k) ==
    IF k <= 1 THEN 0 ELSE PartStart(parts, k - 1) + Len(parts[k - 1].s) + 3

(* C11: the returned text is the parts joined by " . ", and the parts are *)
(* the genre parts, then the tag parts, then the keyword parts, then the  *)
(* description part, each group in the order of its source list; tags     *)
(* keep their list order whatever their ranks.                            *)
C11_JoinedInFixedOrder ==
    Encoded =>
        LET parts == encOut.parts
            text == encOut.text
            n == Len(parts)
        IN /\ Len(text) = IF n = 0 THEN 0 ELSE PartStart(parts, n) + Len(parts[n].s)
           /\ \A k \in 1..n :
                 LET from == PartStart(parts, k)
                     to == from + Len(parts[k].s)
                 IN /\ SubSeq(text, from + 1, to) = parts[k].s
                    /\ k < n => SubSeq(text, to + 1, to + 3) = <<" ", ".", " ">>
           /\ n = DescStart + (IF HasDescription THEN 1 ELSE 0)
           /\ \A k \in 1..Len(InGenres) : parts[2 * k - 1] = PyStr(InGenres[k])
           /\ \A k \in 1..Len(InTags) :
                 parts[TagsStart + WeightBefore(InTags, k) + 1] = InTags[k].name
           /\ \A k \in 1..Len(InKeywords) :
                 parts[KeywordsStart + 2 * k - 1] = PyStr(InKeywords[k])
           /\ HasDescription => parts[n].s = Truncate(StripHTML(encIn.description.s), 200)

(* All four groups present, the first tag of lower rank than the second.  *)
C11_Witness ==
    /\ Encoded
    /\ Len(InGenres) = 2 /\ InGenres[1] # InGenres[2]
    /\ Len(InTags) = 2 /\ InTags[1].rank.n < InTags[2].rank.n
    /\ InTags[1].name # InTags[2].name
    /\ Len(InKeywords) = 2 /\ InKeywords[1] # InKeywords[2]
    /\ HasDescription
    /\ Len(encOut.parts) = 14
    /\ SubSeq(encOut.text, 1, 16)
          = InGenres[1] \o <<" ", ".", " ">> \o InGenres[1] \o <<" ", ".", " ">>
              \o InGenres[2] \o <<" ", ".", " ">> \o InGenres[2]
              \o <<" ", ".", " ">>

(* Every tag carries the name the code reads unconditionally. *)
TagsNamed == \A k \in 1..Len(InTags) : "name" \in DOMAIN InTags[k]

(* An optional field is missing when its key is absent or its value is    *)
(* null, and empty when it is an empty list or string.                    *)
OptionalFieldsOnly ==
    /\ GetList(encIn, "tags").t = "list" => TagsNamed

(* C12: encode is total: whichever optional fields are missing or empty   *)
(* (genres, tags, keywords, description, a tag's rank, a tag's            *)
(* description) the call returns a string and does not raise.             *)
C12_EncodeTotal ==
    (encOut.called /\ OptionalFieldsOnly) => ~encOut.raised

C15_IndexCountIsCatalogSize ==
    knn.state = "fitted" => Len(knn.X) = Len(items)

(* C16: a query with a resolvable title made while the index holds a      *)
(* number of vectors different from the catalog size is rejected; it      *)
(* returns no recommendations.                                            *)
C16_StaleQueryRejected ==
    (/\ Queried /\ ret.idx # NotFound
     /\ knn.state = "fitted" /\ Len(knn.X) # Len(items))
        => ret.kind = "raise"

(* C17: start-up compares the persisted count with the catalog size: on   *)
(* a match the persisted vectors are loaded, otherwise (mismatch or no    *)
(* file) the index is built from the catalog and persisted; every query   *)
(* runs on an index, equal to the persisted one, with as many vectors as  *)
(* the catalog has items.                                                 *)
C17_StartUpComparesCounts ==
    /\ [](Queried =>
            /\ knn.state = "fitted"
            /\ Len(knn.X) = Len(items)
            /\ embeddings.X = knn.X
            /\ disk.exists /\ disk.has /\ disk.X = knn.X)
    /\ [][(ret.op = "load_data" /\ ret'.op = "load_index")
            => /\ Len(disk.X) = Len(items)
               /\ embeddings'.X = disk.X /\ disk' = disk]_vars
    /\ [][(ret.op = "load_data" /\ ret'.op = "build_index")
            => ~disk.exists \/ Len(disk.X) # Len(items)]_vars
    /\ [][(ret.op = "build_index" /\ ret.kind = "ok" /\ ret' # ret)
            => /\ ret'.op = "save_index"
               /\ disk'.X = [k \in 1..Len(items) |-> encoder[Encode(items[k]).text]]
               /\ embeddings.X = disk'.X]_vars


(* The build that was rebuilt on a count mismatch, the old file still on  *)
(* disk.                                                                  *)
C17_Witness ==
    /\ ret.op = "build_index" /\ ret.kind = "ok"
    /\ Len(items) > 1
    /\ disk.exists /\ disk.has /\ Len(disk.X) > 0 /\ Len(disk.X) # Len(items)
    /\ Len(knn.X) = Len(items)

(* C18: load_index adopts the persisted vectors as they are, and tells    *)
(* its caller whether their count matches the catalog size: a restore     *)
(* that leaves the index stale does not return as a plain success.        *)
C18_RestoreReportsStaleness ==
    (ret.op = "load_index" /\ ret.kind = "ok") =>
        /\ embeddings.X = disk.X /\ knn.X = disk.X
        /\ Len(embeddings.X) # Len(items) => ret # Ret("load_index", "ok")

C20_FailedRebuildKeepsIndex ==
    [][(ret'.op = "build_index" /\ ret'.kind = "raise" /\ knn.state = "fitted")
        => /\ embeddings' = embeddings
           /\ knn' = knn]_vars


(* C21: on an empty catalog every recommend call, the empty title         *)
(* included, returns None and does not raise, whether or not an index is  *)
(* present.                                                               *)
C21_EmptyCatalogReturnsNone ==
    (Queried /\ Len(items) = 0) => ret.kind = "none"

C21_Witness ==
    /\ Queried
    /\ Len(items) = 0
    /\ ret.title = <<>>
    /\ knn.state = "fitted"
    /\ ret.kind = "none"

(* The identity of a catalog record is the title it is found and shown by. *)
HasIdentity(item) == "title" \in DOMAIN item

(* C22: a catalog record without its identity fields is left out of the   *)
(* catalog by load_data (skipped and reported), so every catalog entry    *)
(* has them.                                                              *)
C22_MalformedRecordSkipped ==
    \A i \in 1..Len(items) : HasIdentity(items[i])

(* C23: catalog positions are stable.  No call removes, moves or rewrites *)
(* a catalog entry (a load only appends behind the entries present), and  *)
(* a recommend call, its title lookup included, leaves the catalog, the   *)
(* embeddings and the index as they were.                                 *)
C23_CatalogStable ==
    [][/\ Len(items') >= Len(items)
       /\ \A i \in 1..Len(items) : items'[i] = items[i]
       /\ ret'.op = "recommend" => UNCHANGED <<items, embeddings, knn>>]_vars

C23_Witness ==
    /\ Answered
    /\ Len(items) >= 2
    /\ knn.state = "fitted"
    /\ Len(knn.X) = Len(items)

(* The title the stated preference order gives: english when it is there  *)
(* and not empty, else romaji (of a dict) or the plain title when it is   *)
(* there and not empty, else "Unknown".                                   *)
PreferredTitle(item) ==
    LET title == IF "title" \in DOMAIN item THEN item.title ELSE PyNone
    IN IF title.t = "dict"
       THEN IF Truthy(title.english) THEN title.english.s
            ELSE IF Truthy(title.romaji) THEN title.romaji.s
            ELSE Unknown
       ELSE IF Truthy(title) THEN title.s
       ELSE Unknown

(* C24: every site resolves an item's title to the english title when     *)
(* present and non-empty, otherwise to the romaji or plain title when     *)
(* present and non-empty, otherwise to "Unknown".                         *)
C24_TitlePreference ==
    ret.op \in {"_get_title", "get_display_title", "display_results"}
        => ret.title = PreferredTitle(items[1])

PairCatalog == <<SetMediaType(RawA, "anime"), SetMediaType(RawB, "movie")>>

(* C25: on the catalog of anime "A" (item 1) and movie "B" (item 2), both *)
(* with genres ["action"], loaded and indexed, recommend("A", 1) returns  *)
(* item 1 as the source, a movie bucket holding exactly item 2 with a     *)
(* similarity above 0, and empty anime and manga buckets.                 *)
C25_TwoItemScenario ==
    (Queried /\ items = PairCatalog /\ ret.title = Str1("A") /\ ret.n = 1)
        => /\ ret.kind = "ok"
           /\ ret.source = 1
           /\ Len(Bucket("movie")) = 1
           /\ Bucket("movie")[1].i = 2
           /\ Bucket("movie")[1].sim > 0
           /\ Bucket("anime") = <<>>
           /\ Bucket("manga") = <<>>

C25_Witness ==
    /\ Answered
    /\ items = PairCatalog
    /\ ret.title = Str1("A")
    /\ ret.n = 1
    /\ Bucket("movie") = <<[i |-> 2, sim |-> Scale]>>

(* The loop of recommend without its break. *)
RECURSIVE WalkAll(_, _, _, _, _, _)
WalkAll(its, nbrs, p, idx, n, results) ==
    IF p > Len(nbrs) THEN results
    ELSE IF nbrs[p].i = idx THEN WalkAll(its, nbrs, p + 1, idx, n, results)
    ELSE WalkAll(its, nbrs, p + 1, idx, n,
                 AppendTo(results, MediaTypeOf(its[nbrs[p].i]),
                          nbrs[p].i, nbrs[p].dist, n))

(* Neighbour positions whose entry went into a bucket. *)
TakenAt ==
    {p \in 1..Len(ret.nbrs) :
        \E mtype \in DOMAIN ret.results : \E k \in 1..Len(Bucket(mtype)) :
            Bucket(mtype)[k].i = ret.nbrs[p].i}

(* C26: stopping as soon as every bucket is full does not change the      *)
(* result: for every neighbour list and every limit, 0 included, the      *)
(* buckets are those of a walk over the whole list.                       *)
C26_EarlyStopKeepsResult ==
    ret.op = "walk"
        => ret.results = WalkAll(items, ret.nbrs, 1, ret.idx, ret.n, EmptyBuckets)

C26_Witness ==
    /\ ret.op = "walk"
    /\ ret.n = 1
    /\ AllFull(ret.results, 1)
    /\ \E p \in 1..Len(ret.nbrs) :
          /\ ret.nbrs[p].i # ret.idx
          /\ \A q \in TakenAt : q < p

(* C29: on a non-empty catalog a title that is empty or only whitespace   *)
(* is never "not found"; when no item has an empty display title the     *)
(* lookup resolves it, by the substring phase, to the first catalog item  *)
(* and recommend answers for that item.                                   *)
C29_BlankTitleIsFirstItem ==
    (Queried /\ NormalisedQuery = <<>> /\ Len(items) > 0)
        => /\ ret.kind # "none"
           /\ (\A i \in 1..Len(items) : _get_title(items[i]) # <<>>)
                 => /\ ExactMatches(items, NormalisedQuery) = {}
                    /\ ret.idx = 1
                    /\ Answered
                    /\ ret.source = 1

C29_Witness ==
    /\ Answered
    /\ ret.title = Str1(" ")
    /\ Len(items) >= 2
    /\ ret.source = 1
    /\ ExactMatches(items, NormalisedQuery) = {}

(* C27: the client never sends more than RateLimit requests in any        *)
(* interval of Window: of any RateLimit + 1 requests in a row, the last   *)
(* is sent at least Window after the first.                               *)
C27_AtMostFortyPerWindow ==
    Len(tmdb.sent) = RateLimit + 1
        => tmdb.sent[RateLimit + 1] - tmdb.sent[1] >= Window

ErrorsOf(id) == {k \in 1..Len(mc.errors) : mc.errors[k].tmdb_id = id}

ProfilesOf(id) == {k \in 1..Len(mc.collected) : mc.collected[k].tmdb_id = id}

(* C28: over any sequence of collect calls on one collector the details   *)
(* of an id are fetched at most once, no two collected profiles share an  *)
(* id, and an id whose fetch failed is in errors once and is not fetched  *)
(* again.                                                                 *)
C28_DuplicatesSkipped ==
    \A id \in MovieIds :
        /\ mc.fetched[id].calls <= 1
        /\ Cardinality(ProfilesOf(id)) <= 1
        /\ Cardinality(ErrorsOf(id)) = mc.fetched[id].failed
        /\ mc.fetched[id].failed = 1 => ProfilesOf(id) = {}
        /\ (mc.fetched[id].calls = 1 /\ mc.fetched[id].failed = 0)
              => Cardinality(ProfilesOf(id)) = 1

C28_Witness ==
    /\ \E id \in mc.skipped : ErrorsOf(id) # {}
    /\ \E id \in mc.skipped : ProfilesOf(id) # {} /\ mc.fetched[id].calls = 1

(* C30: a call of get_all_media_with_retry always terminates, whatever    *)
(* the server and the network do; it never makes more than MaxRetries     *)
(* failed attempts in a row and never returns more than max_items items.  *)
C30_FetchTerminates ==
    /\ [](al.retry_count <= MaxRetries /\ Len(al.all_media) <= al.max_items)
    /\ <>al.done

====
